---- MODULE Spec2Model ----
(***************************************************************************)
(* Model of src/app.py: one click on "Calcular alocação" in main(), the    *)
(* price fetch loop of fetch_prices, and allocate_portfolio (baseline      *)
(* pass, leftover reachability scan, merge, row assembly), followed by the *)
(* report main() shows.                                                    *)
(*                                                                         *)
(* Money is held in integer cents.  The program computes in binary         *)
(* floating point; the two places where that differs from exact cents      *)
(* arithmetic on the modelled range are modelled by the tables TruncDown   *)
(* (int(x * 100), lines 61-62) and FloorShort (math.floor(share_value / p),*)
(* line 56).  Both tables list every such case for amounts up to 32 cents  *)
(* and prices up to 32 cents with up to 4 symbols, and were obtained by    *)
(* running the Python expressions themselves; round(x, 2) (lines 58, 90,   *)
(* 97, 98) is exact on that range.                                         *)
(***************************************************************************)
EXTENDS Integers, Sequences, FiniteSets

\* ---- bounds of the model ------------------------------------------------
MaxSymbols == 2
MaxBudget == 29
MaxPrice == 5
BigPrice == 29

\* Python's None; also the value of a local that is not yet assigned.
None == << >>

\* Quotes the price page can show, in cents: 0 (a page showing 0,00) and the
\* cheap and expensive positive quotes.
PriceChoices == (0..MaxPrice) \cup {BigPrice}

\* The ways fetch_prices fails for one symbol (lines 36-38, 41-43, 48-50).
FailKinds == {"network", "layout", "format"}

\* ---- floating point ------------------------------------------------------
\* Cents c for which int(float(c / 100) * 100) is c - 1, for c in 0..100.
TruncDown == {29, 57, 58}

\* int(x * 100) for x worth c cents (lines 61 and 62).
Cents100(c) == IF c \in TruncDown THEN c - 1 ELSE c

\* <<budget, number of symbols, price>> in cents for which
\* math.floor((budget / n) / price) is one less than the exact quotient
\* (the float quotient of an exact multiple falls just below the integer),
\* for budget <= 32, n <= 4, price <= 32.
FloorShort ==
    { <<15, 1, 5>>, <<21, 1, 7>>, <<29, 1, 1>>, <<30, 1, 5>>, <<30, 1, 10>>,
      <<30, 2, 5>>, <<15, 3, 1>>, <<15, 3, 5>>, <<21, 3, 1>>, <<21, 3, 7>>,
      <<30, 3, 1>>, <<30, 3, 2>>, <<30, 3, 5>>, <<30, 3, 10>> }

\* ---- state ---------------------------------------------------------------
VARIABLES
    pc,            \* position in main() / allocate_portfolio
    symbols,       \* `selected`: the tickers chosen, in selection order
    max_invest,    \* `max_value`, in cents
    fetched,       \* what the price page answered for each symbol tried so far
    prices,        \* fetch_prices' dict, as the sequence of quotes in cents
    base_shares,   \* line 56
    leftover,      \* line 58, in cents
    target,        \* line 61
    coin_vals,     \* line 62
    max_sum,       \* line 63
    dp,            \* line 64: amount -> combination or None
    amount,        \* loop variable of line 68
    si,            \* position of the inner loop of line 75 in symbols
    best,          \* line 67 / 73
    final_shares,  \* lines 82-87
    remainder,     \* line 90, in cents
    df,            \* the rows of lines 92-101, or None
    err,           \* the exception raised, if any
    shown          \* what main() put on the page

vars == << pc, symbols, max_invest, fetched, prices, base_shares, leftover,
           target, coin_vals, max_sum, dp, amount, si, best, final_shares,
           remainder, df, err, shown >>

scanVars == << target, coin_vals, max_sum, dp, amount, si, best >>

N == Len(symbols)

RECURSIVE SumTo(_, _)
SumTo(f, k) == IF k = 0 THEN 0 ELSE f[k] + SumTo(f, k - 1)

\* sum(shares[s] * prices[s] for s in symbols), lines 57 and 89.
Spent(shares) == SumTo([s \in 1..N |-> shares[s] * prices[s]], N)

\* The cost of a combination in the scan's unit costs.
ComboCost(combo) == SumTo([s \in 1..N |-> combo[s] * coin_vals[s]], N)

RECURSIVE MinTo(_, _)
MinTo(f, k) ==
    IF k = 1 THEN f[1]
    ELSE LET m == MinTo(f, k - 1) IN IF f[k] < m THEN f[k] ELSE m

\* min(coin_vals.values())
MinCoin(cv) == MinTo(cv, Len(cv))

\* ---- main(), lines 116-121 ----------------------------------------------
Init ==
    /\ pc = "main"
    /\ \E n \in 0..MaxSymbols : symbols = [i \in 1..n |-> i]
    /\ max_invest \in 0..MaxBudget
    /\ fetched = << >>
    /\ prices = << >>
    /\ base_shares = None
    /\ leftover = 0
    /\ target = 0
    /\ coin_vals = None
    /\ max_sum = 0
    /\ dp = None
    /\ amount = 0
    /\ si = 0
    /\ best = None
    /\ final_shares = None
    /\ remainder = 0
    /\ df = None
    /\ err = "none"
    /\ shown = "nothing"

\* if not selected: st.warning(...); return
RejectEmpty ==
    /\ pc = "main"
    /\ symbols = << >>
    /\ pc' = "done"
    /\ shown' = "warning"
    /\ UNCHANGED << symbols, max_invest, fetched, prices, base_shares, leftover,
                    final_shares, remainder, df, err >>
    /\ UNCHANGED scanVars

\* df, remainder = allocate_portfolio(selected, max_value)
CallAllocate ==
    /\ pc = "main"
    /\ symbols # << >>
    /\ pc' = "fetch"
    /\ UNCHANGED << symbols, max_invest, fetched, prices, base_shares, leftover,
                    final_shares, remainder, df, err, shown >>
    /\ UNCHANGED scanVars

\* ---- fetch_prices, lines 30-51 -------------------------------------------
\* One pass of the loop for which the page yields a parsable quote.
FetchOk(p) ==
    /\ pc = "fetch"
    /\ Len(prices) < N
    /\ fetched' = Append(fetched, "ok")
    /\ prices' = Append(prices, p)
    /\ UNCHANGED << pc, symbols, max_invest, base_shares, leftover,
                    final_shares, remainder, df, err, shown >>
    /\ UNCHANGED scanVars

\* FetchFail with the failure logged and a default quote of 0 stored instead
\* of raising.
FetchFailSubstitute(kind) ==
    /\ pc = "fetch"
    /\ Len(prices) < N
    /\ fetched' = Append(fetched, kind)
    /\ prices' = Append(prices, 0)
    /\ UNCHANGED << pc, symbols, max_invest, base_shares, leftover,
                    final_shares, remainder, df, err, shown >>
    /\ UNCHANGED scanVars

\* One pass of the loop that raises PriceFetchError.
FetchFail(kind) ==
    /\ pc = "fetch"
    /\ Len(prices) < N
    /\ fetched' = Append(fetched, kind)
    /\ err' = "PriceFetchError"
    /\ pc' = "raised"
    /\ UNCHANGED << symbols, max_invest, prices, base_shares, leftover,
                    final_shares, remainder, df, shown >>
    /\ UNCHANGED scanVars

\* ---- allocate_portfolio: baseline pass, lines 55-58 ----------------------
\* BaseShare with math.ceil in place of math.floor.
BaseShareCeil(budget, n, p) == (budget + n * p - 1) \div (n * p)

\* BaseShare with the operands of the division swapped: p / share_value.
BaseShareInverted(budget, n, p) ==
    IF budget = 0 THEN 0 ELSE (n * p) \div budget

\* math.floor((budget / n) / p) for a price p > 0.
BaseShare(budget, n, p) ==
    (budget \div (n * p)) - (IF <<budget, n, p>> \in FloorShort THEN 1 ELSE 0)

\* A quote of 0.0 makes share_value / p raise ZeroDivisionError (line 56).
BaselineRaise ==
    /\ pc = "fetch"
    /\ Len(prices) = N
    /\ \E s \in 1..N : prices[s] = 0
    /\ err' = "ZeroDivisionError"
    /\ pc' = "raised"
    /\ UNCHANGED << symbols, max_invest, fetched, prices, base_shares, leftover,
                    final_shares, remainder, df, shown >>
    /\ UNCHANGED scanVars

Baseline ==
    /\ pc = "fetch"
    /\ Len(prices) = N
    /\ \A s \in 1..N : prices[s] # 0
    /\ base_shares' = [s \in 1..N |-> BaseShare(max_invest, N, prices[s])]
    /\ leftover' = max_invest - SumTo([s \in 1..N |-> base_shares'[s] * prices[s]], N)
    /\ pc' = "branch"
    /\ UNCHANGED << symbols, max_invest, fetched, prices, final_shares,
                    remainder, df, err, shown >>
    /\ UNCHANGED scanVars

\* ---- leftover scan, lines 60-80 ------------------------------------------
\* Horizon without the slack of the cheapest unit cost.
HorizonTarget(t, cv) == t

\* max_sum = target + min(coin_vals.values()), line 63.
Horizon(t, cv) == t + MinCoin(cv)

\* Hit with > in place of >=.
HitStrict(a, t) == a > t

\* if amount >= target, line 72.
Hit(a, t) == a >= t

\* MaySet without the `dp[new_amt] is None` test.
MaySetAny(new_amt) == new_amt <= max_sum

\* if new_amt <= max_sum and dp[new_amt] is None, line 77.
MaySet(new_amt) == new_amt <= max_sum /\ dp[new_amt] = None

\* NextCombo with = 1 in place of += 1.
NextComboAssign(combo, s) == [combo EXCEPT ![s] = 1]

\* next_combo = combo.copy(); next_combo[s] += 1, lines 78-79.
NextCombo(combo, s) == [combo EXCEPT ![s] = combo[s] + 1]

\* else: final_shares = base_shares, lines 86-87.
NoLeftover ==
    /\ pc = "branch"
    /\ ~(leftover > 0)
    /\ final_shares' = base_shares
    /\ pc' = "assemble"
    /\ UNCHANGED << symbols, max_invest, fetched, prices, base_shares, leftover,
                    remainder, df, err, shown >>
    /\ UNCHANGED scanVars

\* if leftover > 0: ... best = None, lines 60-67.
StartScan ==
    /\ pc = "branch"
    /\ leftover > 0
    /\ target' = Cents100(leftover)
    /\ coin_vals' = [s \in 1..N |-> Cents100(prices[s])]
    /\ max_sum' = Horizon(target', coin_vals')
    /\ dp' = [a \in 0..max_sum' |-> IF a = 0 THEN [s \in 1..N |-> 0] ELSE None]
    /\ best' = None
    /\ amount' = 0
    /\ si' = 0
    /\ pc' = "scan"
    /\ UNCHANGED << symbols, max_invest, fetched, prices, base_shares, leftover,
                    final_shares, remainder, df, err, shown >>

\* The for of line 68 takes its next amount, or ends with best still None.
NextAmount ==
    /\ IF amount + 1 <= max_sum
         THEN amount' = amount + 1 /\ pc' = "scan"
         ELSE amount' = amount /\ pc' = "merge"
    /\ si' = 0

\* if combo is None: continue, lines 69-71.
ScanSkip ==
    /\ pc = "scan"
    /\ dp[amount] = None
    /\ NextAmount
    /\ UNCHANGED << symbols, max_invest, fetched, prices, base_shares, leftover,
                    final_shares, remainder, df, err, shown >>
    /\ UNCHANGED << target, coin_vals, max_sum, dp, best >>

\* if amount >= target: best = combo; break, lines 72-74.
ScanHit ==
    /\ pc = "scan"
    /\ dp[amount] # None
    /\ Hit(amount, target)
    /\ best' = dp[amount]
    /\ pc' = "merge"
    /\ UNCHANGED << symbols, max_invest, fetched, prices, base_shares, leftover,
                    final_shares, remainder, df, err, shown >>
    /\ UNCHANGED << target, coin_vals, max_sum, dp, amount, si >>

\* A marked amount below target: enter the for of line 75.
ScanExpand ==
    /\ pc = "scan"
    /\ dp[amount] # None
    /\ ~Hit(amount, target)
    /\ si' = 1
    /\ pc' = "inner"
    /\ UNCHANGED << symbols, max_invest, fetched, prices, base_shares, leftover,
                    final_shares, remainder, df, err, shown >>
    /\ UNCHANGED << target, coin_vals, max_sum, dp, amount, best >>

\* One pass of the for of line 75, for symbols[si]; lines 76-80.
InnerStep ==
    /\ pc = "inner"
    /\ si <= N
    /\ LET new_amt == amount + coin_vals[si]
       IN  dp' = IF MaySet(new_amt)
                   THEN [dp EXCEPT ![new_amt] = NextCombo(dp[amount], si)]
                   ELSE dp
    /\ si' = si + 1
    /\ UNCHANGED << symbols, max_invest, fetched, prices, base_shares, leftover,
                    final_shares, remainder, df, err, shown >>
    /\ UNCHANGED << pc, target, coin_vals, max_sum, amount, best >>

\* The for of line 75 is exhausted: back to the for of line 68.
InnerEnd ==
    /\ pc = "inner"
    /\ si > N
    /\ NextAmount
    /\ UNCHANGED << symbols, max_invest, fetched, prices, base_shares, leftover,
                    final_shares, remainder, df, err, shown >>
    /\ UNCHANGED << target, coin_vals, max_sum, dp, best >>

\* ---- merge and assembly, lines 82-102 ------------------------------------
\* FinalShares with the extras dropped.
FinalSharesBaseOnly(base, b) == [s \in 1..N |-> base[s]]

\* {s: base_shares[s] + (best.get(s, 0) if best else 0) for s in symbols}
FinalShares(base, b) ==
    [s \in 1..N |-> base[s] + (IF b # None THEN b[s] ELSE 0)]

MergeExtras ==
    /\ pc = "merge"
    /\ final_shares' = FinalShares(base_shares, best)
    /\ pc' = "assemble"
    /\ UNCHANGED << symbols, max_invest, fetched, prices, base_shares, leftover,
                    remainder, df, err, shown >>
    /\ UNCHANGED scanVars

\* round(final_shares[s] * prices[s], 2), the divisor of line 97.
RowTotal(s) == final_shares[s] * prices[s]

\* Lines 89-102 when no row divides by zero.  A row keeps the columns Ticker,
\* Quantidade, Cotação and Total Investido.
Assemble ==
    /\ pc = "assemble"
    /\ \A s \in 1..N : RowTotal(s) # 0
    /\ remainder' = max_invest - Spent(final_shares)
    /\ df' = [s \in 1..N |-> [Ticker |-> symbols[s],
                              Quantidade |-> final_shares[s],
                              Cotacao |-> prices[s],
                              Total |-> RowTotal(s)]]
    /\ pc' = "returned"
    /\ UNCHANGED << symbols, max_invest, fetched, prices, base_shares, leftover,
                    final_shares, err, shown >>
    /\ UNCHANGED scanVars

\* Line 97 for a symbol with no shares: prices[s] / 0.0 raises
\* ZeroDivisionError and nothing is returned.
AssembleRaise ==
    /\ pc = "assemble"
    /\ \E s \in 1..N : RowTotal(s) = 0
    /\ err' = "ZeroDivisionError"
    /\ pc' = "raised"
    /\ UNCHANGED << symbols, max_invest, fetched, prices, base_shares, leftover,
                    final_shares, remainder, df, shown >>
    /\ UNCHANGED scanVars

\* ---- main(), lines 122-133 -----------------------------------------------
ReportAllocation ==
    /\ pc = "returned"
    /\ shown' = IF remainder < 0 THEN "deficit" ELSE "restante"
    /\ pc' = "done"
    /\ UNCHANGED << symbols, max_invest, fetched, prices, base_shares, leftover,
                    final_shares, remainder, df, err >>
    /\ UNCHANGED scanVars

\* except PriceFetchError as e: st.error(str(e))
ReportFetchError ==
    /\ pc = "raised"
    /\ err = "PriceFetchError"
    /\ shown' = "fetch_error"
    /\ pc' = "done"
    /\ UNCHANGED << symbols, max_invest, fetched, prices, base_shares, leftover,
                    final_shares, remainder, df, err >>
    /\ UNCHANGED scanVars

\* except Exception as e: st.error("Ocorreu um erro inesperado ...")
ReportUnexpected ==
    /\ pc = "raised"
    /\ err # "PriceFetchError"
    /\ shown' = "unexpected_error"
    /\ pc' = "done"
    /\ UNCHANGED << symbols, max_invest, fetched, prices, base_shares, leftover,
                    final_shares, remainder, df, err >>
    /\ UNCHANGED scanVars

Next ==
    \/ RejectEmpty
    \/ CallAllocate
    \/ \E p \in PriceChoices : FetchOk(p)
    \/ \E kind \in FailKinds : FetchFail(kind)
    \/ BaselineRaise
    \/ Baseline
    \/ NoLeftover
    \/ StartScan
    \/ ScanSkip
    \/ ScanHit
    \/ ScanExpand
    \/ InnerStep
    \/ InnerEnd
    \/ MergeExtras
    \/ Assemble
    \/ AssembleRaise
    \/ ReportAllocation
    \/ ReportFetchError
    \/ ReportUnexpected

Spec == Init /\ [][Next]_vars

\* ==== properties ==========================================================
\* The input is valid: a non-empty selection, every quote obtained and
\* positive, a budget >= 0.
ValidInput ==
    /\ N > 0
    /\ Len(prices) = N
    /\ \A s \in 1..N : prices[s] > 0
    /\ max_invest >= 0

\* The input is invalid: an empty selection, a budget <= 0, or a quote <= 0
\* among those fetched.
InvalidInput ==
    \/ N = 0
    \/ max_invest <= 0
    \/ \E s \in 1..Len(prices) : prices[s] <= 0

\* The scan has run and the extras are merged.
Merged == final_shares # None /\ leftover > 0

\* best.get(s, 0) if best else 0
Extra(s) == final_shares[s] - base_shares[s]

\* v is a non-negative integer combination of the unit costs of the first
\* i symbols.
RECURSIVE CanMake(_, _)
CanMake(v, i) ==
    IF i = 0 THEN v = 0
    ELSE \E k \in 0..(v \div coin_vals[i]) : CanMake(v - k * coin_vals[i], i - 1)

\* ---- C1 ------------------------------------------------------------------
\* C1 as stated: the allocation that allocate_portfolio returns never
\* overspends, i.e. sum of final_shares[s] * price[s] <= budget and the
\* reported remainder is >= 0.
C1_NeverOverspend ==
    df # None => (Spent(final_shares) <= max_invest /\ remainder >= 0)

\* C1 amended: the baseline pass never overspends (the baseline leftover is
\* >= 0), a zero budget gives final share counts that are all zero, and the
\* final counts are never below the baseline; when the baseline leftover is
\* positive the extras cost at least target in the scan's unit costs, so the
\* final allocation may exceed the budget.
C1_BaselineWithinBudget ==
    /\ base_shares # None =>
          /\ Spent(base_shares) <= max_invest
          /\ leftover = max_invest - Spent(base_shares)
          /\ leftover >= 0
    /\ (final_shares # None /\ max_invest = 0) =>
          \A s \in 1..N : final_shares[s] = 0
    /\ final_shares # None => \A s \in 1..N : final_shares[s] >= base_shares[s]
    /\ Merged => ComboCost([s \in 1..N |-> Extra(s)]) >= target
    /\ df # None => remainder = max_invest - Spent(final_shares)

\* An allocation is returned that spends more than the budget.
C1_Witness == df # None /\ Spent(final_shares) > max_invest /\ remainder < 0

\* ---- C2 ------------------------------------------------------------------
\* C2: when the baseline leftover is positive, the cost of the extras chosen
\* (in the scan's unit costs) is the smallest value >= target that is a
\* non-negative integer combination of the unit costs.
C2_Minimality ==
    Merged =>
        LET cost == ComboCost([s \in 1..N |-> Extra(s)])
        IN  /\ cost >= target
            /\ CanMake(cost, N)
            /\ \A v \in target..(cost - 1) : ~CanMake(v, N)

\* The scan ran with two different unit costs and overshot the target.
C2_Witness ==
    /\ Merged
    /\ N = 2
    /\ coin_vals[1] # coin_vals[2]
    /\ Extra(1) > 0
    /\ Extra(2) > 0
    /\ ComboCost([s \in 1..N |-> Extra(s)]) > target

\* ---- C3 ------------------------------------------------------------------
\* The baseline leftover is positive and below the price of every symbol.
SmallLeftover == Merged /\ \A s \in 1..N : leftover < prices[s]

\* C3 as stated: when the baseline leftover is positive but smaller than
\* every price, no extra share is added and the leftover is reported as a
\* non-negative remainder.
C3_NoExtras ==
    SmallLeftover =>
        /\ final_shares = base_shares
        /\ df # None => (remainder = leftover /\ remainder >= 0)

\* C3 amended: when the baseline leftover is positive but smaller than every
\* price, the scan adds exactly one extra share, of the first symbol in
\* selection order whose unit cost is the smallest; the spend then exceeds
\* the budget, and a returned allocation reports a negative remainder that
\* main() shows as a deficit.
C3_OneExtraShare ==
    SmallLeftover =>
        /\ \E s \in 1..N :
              /\ Extra(s) = 1
              /\ \A t \in 1..N : t # s => Extra(t) = 0
              /\ \A t \in 1..N : coin_vals[s] <= coin_vals[t]
              /\ \A t \in 1..(s - 1) : coin_vals[s] < coin_vals[t]
              /\ df # None => remainder = leftover - prices[s]
        /\ Spent(final_shares) > max_invest
        /\ df # None => remainder < 0
        /\ (pc = "done" /\ df # None) => shown = "deficit"

\* A leftover below every price was reported, with two symbols selected.
C3_Witness == SmallLeftover /\ N = 2 /\ pc = "done" /\ shown = "deficit"

\* ---- C4 ------------------------------------------------------------------
\* C4: for valid input allocate_portfolio raises nothing, and what it
\* returns has one row for every selected symbol.
C4_ValidInputReturns ==
    ValidInput =>
        /\ err = "none"
        /\ df # None => Len(df) = N
        /\ pc = "done" => df # None

\* ---- C5 ------------------------------------------------------------------
\* C5: invalid input (empty selection, budget <= 0, a price <= 0) is
\* rejected before allocation begins: no baseline or leftover computation is
\* performed and no allocation is produced.
C5_InvalidRejected ==
    InvalidInput => (base_shares = None /\ dp = None /\ final_shares = None /\ df = None)

\* ---- C6 ------------------------------------------------------------------
\* C6: if the quote of any selected symbol cannot be obtained, the request
\* fails with PriceFetchError and nothing is computed or reported as an
\* allocation, also when earlier quotes were fetched.
C6_FetchFailureIsAtomic ==
    (\E i \in 1..Len(fetched) : fetched[i] # "ok") =>
        /\ err = "PriceFetchError"
        /\ pc \in {"raised", "done"}
        /\ base_shares = None
        /\ final_shares = None
        /\ df = None
        /\ shown \in {"nothing", "fetch_error"}
        /\ pc = "done" => shown = "fetch_error"

\* The second quote failed after the first was fetched, and main() reported.
C6_Witness ==
    /\ Len(fetched) = 2
    /\ fetched[1] = "ok"
    /\ fetched[2] # "ok"
    /\ Len(prices) = 1
    /\ pc = "done"

\* ---- C7 ------------------------------------------------------------------
\* C7: with the symbols and prices fixed, the baseline share count of every
\* symbol under a budget b1 <= budget is <= its count under budget.
C7_BaselineMonotone ==
    base_shares # None =>
        \A b1 \in 0..max_invest : \A s \in 1..N :
            BaseShare(b1, N, prices[s]) <= base_shares[s]

\* A baseline in which a smaller budget gives strictly fewer shares, at a
\* budget where the float quotient falls short of the exact one.
C7_Witness ==
    /\ base_shares # None
    /\ \E s \in 1..N :
          /\ <<max_invest, N, prices[s]>> \in FloorShort
          /\ \E b1 \in 0..max_invest : BaseShare(b1, N, prices[s]) < base_shares[s]

\* ---- C8 ------------------------------------------------------------------
\* C8: when the baseline leftover is positive (every unit cost then being a
\* positive number of cents), the scan stops at a marked amount a with
\* target <= a < target + min(unit cost), so best is never None.
C8_ScanAlwaysHits ==
    (pc \in {"merge", "assemble", "returned", "raised", "done"} /\ leftover > 0) =>
        /\ \A s \in 1..N : coin_vals[s] > 0
        /\ best # None
        /\ best = dp[amount]
        /\ target <= amount
        /\ amount < target + MinCoin(coin_vals)

\* The scan stopped strictly between target and the horizon.
C8_Witness ==
    /\ pc = "merge"
    /\ best # None
    /\ amount > target
    /\ amount < max_sum
    /\ MinCoin(coin_vals) > 1

\* ---- C9 ------------------------------------------------------------------
\* The first (amount, symbol), in scan order, that leads to slot x.
FirstFrom(x) ==
    LET from == { a \in 0..(x - 1) :
                    /\ dp[a] # None
                    /\ ~Hit(a, target)
                    /\ (a < amount \/ (a = amount /\ pc = "inner"))
                    /\ \E s \in 1..N :
                          /\ a + coin_vals[s] = x
                          /\ (a = amount => s < si) }
        a0 == CHOOSE a \in from : \A b \in from : a <= b
        s0 == CHOOSE s \in 1..N :
                 /\ a0 + coin_vals[s] = x
                 /\ \A t \in 1..(s - 1) : a0 + coin_vals[t] # x
    IN  << a0, s0 >>

\* C9: a marked slot is never overwritten, and the combination a slot holds
\* is the one found first when amounts are taken in increasing order and
\* symbols in selection order.
C9_SlotsKept ==
    [][\A a \in DOMAIN dp :
          dp[a] # None => (a \in DOMAIN dp' /\ dp'[a] = dp[a])]_vars

C9_FirstWins ==
    \A x \in DOMAIN dp :
        (x > 0 /\ dp[x] # None) =>
            LET f == FirstFrom(x)
            IN  dp[x] = [dp[f[1]] EXCEPT ![f[2]] = dp[f[1]][f[2]] + 1]

C9_FirstDiscoveredKept == C9_SlotsKept /\ []C9_FirstWins

\* A slot already marked is reached again, from another amount or symbol.
C9_Witness ==
    /\ pc = "inner"
    /\ si <= N
    /\ amount + coin_vals[si] <= max_sum
    /\ dp[amount + coin_vals[si]] # None
    /\ dp[amount + coin_vals[si]] # NextCombo(dp[amount], si)

\* ---- C10 -----------------------------------------------------------------
\* C10: every marked slot dp[a] holds a count >= 0 for every selected symbol
\* and costs exactly a; the extras returned cost the amount at which the scan
\* stopped, and no final count is below its baseline.
C10_SlotCostIsIndex ==
    /\ \A a \in DOMAIN dp :
          dp[a] # None =>
              /\ DOMAIN dp[a] = 1..N
              /\ \A s \in 1..N : dp[a][s] >= 0
              /\ ComboCost(dp[a]) = a
    /\ Merged =>
          /\ ComboCost([s \in 1..N |-> Extra(s)]) = amount
          /\ \A s \in 1..N : final_shares[s] >= base_shares[s]

\* Extras of both symbols were merged.
C10_Witness ==
    /\ Merged
    /\ N = 2
    /\ Extra(1) > 0
    /\ Extra(2) > 0
    /\ amount > 0

====
